---- MODULE Spec2Model ----
(***************************************************************************)
(* news-gpt (src/app.py): a Streamlit script that fetches news articles,   *)
(* keeps them in st.session_state, translates/summarises one article per   *)
(* button press through an LLM call, parses the completion line by line    *)
(* and shows a sentiment label.                                            *)
(*                                                                         *)
(* Text is modelled character by character: a Python str is a sequence of  *)
(* one-character strings, so prefix tests, split, replace, strip and the   *)
(* regular expression of strip_markdown are computed as the code computes  *)
(* them.  Python's None is the one-element sequence None, which no text    *)
(* equals because its element is longer than one character.                *)
(*                                                                         *)
(* One action is one run of the script (Streamlit reruns the whole script  *)
(* for each widget event): the Fetch Articles handler followed by the      *)
(* display loop, or the display loop with one Translate button pressed.    *)
(***************************************************************************)
EXTENDS Integers, Sequences, FiniteSets, TLC

VARIABLES
    articles,          \* st.session_state.articles
    articles_fetched,  \* st.session_state.articles_fetched
    translated,        \* st.session_state["translated_<index>"], index -> value
    shown,             \* what the last run of the script rendered
    lastRun,           \* the widget event and the replies of the last run
    pc,                \* position of the pure-function harnesses
    text,              \* argument handed to the pure function
    out                \* results the pure function returned so far

vars == <<articles, articles_fetched, translated, shown, lastRun, pc, text, out>>

sessionVars == <<articles, articles_fetched, translated, shown, lastRun>>

harnessVars == <<pc, text, out>>

----------------------------------------------------------------------------
\* Bounds of the model.

\* longest text over TextAlphabet handed to strip_markdown
MaxTextLen == 4

\* most lines of a free-form completion handed to the parsing loop
MaxLines == 3

\* most bullets of a completion that follows the requested layout
MaxBullets == 2

\* most article records in one fetch response
MaxResults == 2

----------------------------------------------------------------------------
\* Python values and str methods.

None == <<"<None>">>

Min(S) == CHOOSE x \in S : \A y \in S : x <= y

Max(S) == CHOOSE x \in S : \A y \in S : x >= y

\* bool(v) of a str or None
Truthy(v) == v # None /\ v # <<>>

\* the characters str.strip() removes, among those the model's texts use
Whitespace == {" ", "\n", "\t", "\r"}

RECURSIVE LStrip(_)
LStrip(s) == IF s # <<>> /\ Head(s) \in Whitespace THEN LStrip(Tail(s)) ELSE s

RECURSIVE RStrip(_)
RStrip(s) ==
    IF s # <<>> /\ s[Len(s)] \in Whitespace
    THEN RStrip(SubSeq(s, 1, Len(s) - 1))
    ELSE s

\* str.strip()
StrStrip(s) == RStrip(LStrip(s))

\* str.startswith(prefix)
StartsWith(s, prefix) ==
    Len(prefix) <= Len(s) /\ SubSeq(s, 1, Len(prefix)) = prefix

\* str.split("\n"): the empty text splits into one empty line
RECURSIVE Split(_)
Split(s) ==
    LET nl == {i \in 1..Len(s) : s[i] = "\n"} IN
    IF nl = {} THEN <<s>>
    ELSE LET i == Min(nl) IN
         <<SubSeq(s, 1, i - 1)>> \o Split(SubSeq(s, i + 1, Len(s)))

\* "\n".join(lines)
RECURSIVE Join(_)
Join(lines) ==
    IF lines = <<>> THEN <<>>
    ELSE IF Len(lines) = 1 THEN lines[1]
    ELSE lines[1] \o <<"\n">> \o Join(Tail(lines))

\* str.replace(old, ""): every non-overlapping occurrence, left to right
RECURSIVE Remove(_, _)
Remove(s, old) ==
    IF Len(s) < Len(old) THEN s
    ELSE IF StartsWith(s, old) THEN Remove(SubSeq(s, Len(old) + 1, Len(s)), old)
    ELSE <<Head(s)>> \o Remove(Tail(s), old)

\* list.index(x): position of the first equal element, 0 for ValueError
ListIndex(lines, line) ==
    LET at == {i \in 1..Len(lines) : lines[i] = line} IN
    IF at = {} THEN 0 ELSE Min(at)

\* dict.get(key, default)
Get(d, key, default) == IF key \in DOMAIN d THEN d[key] ELSE default

\* d[key] = value
SetKey(d, key, value) == [k \in DOMAIN d \cup {key} |-> IF k = key THEN value ELSE d[k]]

----------------------------------------------------------------------------
\* strip_markdown: re.sub(r'\*\*(.*?)\*\*|__(.*?)__|\*(.*?)\*|_(.*?)_',
\*                        r'\1\2\3\4', text).strip()

\* the opening (and closing) delimiter of each alternative, in pattern order
Delimiters == << <<"*", "*">>, <<"_", "_">>, <<"*">>, <<"_">> >>

\* d occurs in s at position p
OccursAt(s, p, d) ==
    p + Len(d) - 1 <= Len(s) /\ SubSeq(s, p, p + Len(d) - 1) = d

\* where the lazy group (.*?) lets the closing delimiter match: the first
\* position after the opening one, with no newline in between; 0 when none
CloseOf(s, p, d) ==
    LET from == p + Len(d)
        ends == {q \in from..Len(s) :
                    /\ OccursAt(s, q, d)
                    /\ \A k \in from..(q - 1) : s[k] # "\n"}
    IN  IF ends = {} THEN 0 ELSE Min(ends)

\* the match of the pattern at position p: the first alternative that matches
MatchAt(s, p) ==
    LET ok == {a \in 1..Len(Delimiters) :
                  OccursAt(s, p, Delimiters[a]) /\ CloseOf(s, p, Delimiters[a]) # 0}
    IN  IF ok = {} THEN [found |-> FALSE, inner |-> <<>>, next |-> p + 1]
        ELSE LET d == Delimiters[Min(ok)]
                 q == CloseOf(s, p, d)
             IN  [found |-> TRUE,
                  inner |-> SubSeq(s, p + Len(d), q - 1),
                  next  |-> q + Len(d)]

\* re.sub from position p on: one left-to-right pass, matches replaced by
\* their group, the scan resuming after each match
RECURSIVE ReSub(_, _)
ReSub(s, p) ==
    IF p > Len(s) THEN <<>>
    ELSE LET m == MatchAt(s, p) IN
         IF m.found THEN m.inner \o ReSub(s, m.next)
         ELSE <<s[p]>> \o ReSub(s, p + 1)

\* strip_markdown losing one whitespace character at each end instead of all
strip_markdown_one(t) ==
    LET s == ReSub(t, 1)
        l == IF s # <<>> /\ Head(s) \in Whitespace THEN Tail(s) ELSE s
    IN  IF l # <<>> /\ l[Len(l)] \in Whitespace THEN SubSeq(l, 1, Len(l) - 1) ELSE l

strip_markdown(t) == StrStrip(ReSub(t, 1))

----------------------------------------------------------------------------
\* The parsing loop over the stored completion (app.py 285-303).

SummaryIn == <<"S","u","m","m","a","r","y"," ","i","n">>

TitleMarker == <<"T","r","a","n","s","l","a","t","e","d"," ","T","i","t","l","e",":">>

ContentMarker == <<"T","r","a","n","s","l","a","t","e","d"," ","C","o","n","t","e","n","t",":">>

IsDashLine(line) == StartsWith(line, <<"-">>)

\* the dash lines up to the first line that is not one
SummaryRun(lines, idx) ==
    LET rest == SubSeq(lines, idx + 1, Len(lines))
        stop == {i \in 1..Len(rest) : ~IsDashLine(rest[i])}
        run  == IF stop = {} THEN rest ELSE SubSeq(rest, 1, Min(stop) - 1)
    IN  [i \in 1..Len(run) |-> StrStrip(run[i])]

\* [line.strip() for line in lines[idx + 1:] if line.startswith("-")],
\* idx the 0-based lines.index(line), here the 1-based position
SummaryAfter(lines, idx) ==
    LET rest == SubSeq(lines, idx + 1, Len(lines))
        sel  == SelectSeq(rest, IsDashLine)
    IN  [i \in 1..Len(sel) |-> StrStrip(sel[i])]

\* the body run for the Translated Content line also assigning the title
ParseLineBoth(lines, line, acc) ==
    IF acc.raised THEN acc
    ELSE IF StartsWith(line, SummaryIn) THEN
        IF ListIndex(lines, line) = 0 THEN [acc EXCEPT !.raised = TRUE]
        ELSE [acc EXCEPT !.summary = SummaryAfter(lines, ListIndex(lines, line))]
    ELSE IF StartsWith(line, TitleMarker) THEN
        [acc EXCEPT !.translated_title = StrStrip(Remove(line, TitleMarker \o <<" ">>))]
    ELSE IF StartsWith(line, ContentMarker) THEN
        [acc EXCEPT !.translated_title = StrStrip(Remove(line, ContentMarker \o <<" ">>)),
                    !.translated_body = StrStrip(Remove(line, ContentMarker \o <<" ">>))]
    ELSE acc

\* one iteration of `for line in lines`
ParseLine(lines, line, acc) ==
    IF acc.raised THEN acc
    ELSE IF StartsWith(line, SummaryIn) THEN
        IF ListIndex(lines, line) = 0 THEN [acc EXCEPT !.raised = TRUE]
        ELSE [acc EXCEPT !.summary = SummaryAfter(lines, ListIndex(lines, line))]
    ELSE IF StartsWith(line, TitleMarker) THEN
        [acc EXCEPT !.translated_title = StrStrip(Remove(line, TitleMarker \o <<" ">>))]
    ELSE IF StartsWith(line, ContentMarker) THEN
        [acc EXCEPT !.translated_body = StrStrip(Remove(line, ContentMarker \o <<" ">>))]
    ELSE acc

RECURSIVE ParseLines(_, _, _)
ParseLines(lines, k, acc) ==
    IF k > Len(lines) THEN acc
    ELSE ParseLines(lines, k + 1, ParseLine(lines, lines[k], acc))

\* lines 285-303: split, scan, then strip_markdown on title and body
ParseTranslatedResponse(translated_response) ==
    LET lines == Split(translated_response)
        acc   == ParseLines(lines, 1,
                    [summary |-> <<>>, translated_title |-> <<>>,
                     translated_body |-> <<>>, raised |-> FALSE])
    IN  IF acc.raised THEN acc
        ELSE [acc EXCEPT !.translated_title = strip_markdown(@),
                         !.translated_body = strip_markdown(@)]

----------------------------------------------------------------------------
\* Session state after the script's first lines (app.py 170-175).

SessionInit ==
    /\ articles = <<>>
    /\ articles_fetched = FALSE
    /\ translated = <<>>
    /\ shown = <<>>
    /\ lastRun = [op |-> "start"]

----------------------------------------------------------------------------
\* strip_markdown applied to bounded texts, then to its own result.

TextAlphabet == {"*", "_", "a", " ", "\n"}

RECURSIVE TextsUpTo(_)
TextsUpTo(n) ==
    IF n = 0 THEN {<<>>}
    ELSE LET shorter == TextsUpTo(n - 1) IN
         shorter \cup {Append(t, c) : t \in {x \in shorter : Len(x) = n - 1},
                                      c \in TextAlphabet}

\* three asterisks on each side of a word
TripleStar == <<"*","*","*","a","*","*","*">>

StripInputs == TextsUpTo(MaxTextLen) \cup {TripleStar}

StripInit ==
    /\ SessionInit
    /\ pc = "strip"
    /\ text \in StripInputs
    /\ out = <<>>

\* stripped = strip_markdown(text); then strip_markdown(stripped)
StripCall ==
    /\ pc = "strip"
    /\ out' = Append(out, strip_markdown(IF out = <<>> THEN text ELSE out[Len(out)]))
    /\ pc' = IF Len(out) = 1 THEN "stripped" ELSE "strip"
    /\ UNCHANGED <<text, sessionVars>>

StripNext == StripCall

StripSpec == StripInit /\ [][StripNext]_vars

----------------------------------------------------------------------------
\* The parsing loop applied to bounded completions.

LinePool == {
    <<"S","u","m","m","a","r","y"," ","i","n"," ","F","r","e","n","c","h",":">>,
    <<"S","u","m","m","a","r","y"," ","i","n"," ","T","h","a","i",":">>,
    <<"-"," ","P","o","i","n","t"," ","o","n","e">>,
    <<"-"," ","P","o","i","n","t"," ","t","w","o">>,
    <<"T","r","a","n","s","l","a","t","e","d"," ","T","i","t","l","e",":"," ","L","e"," ","T","i","t","r","e">>,
    <<"T","r","a","n","s","l","a","t","e","d"," ","C","o","n","t","e","n","t",":"," ","L","e"," ","C","o","r","p","s">>,
    <<>>,
    <<"V","o","i","c","i">> }

RECURSIVE LinesUpTo(_)
LinesUpTo(n) ==
    IF n = 0 THEN {<<>>}
    ELSE LET shorter == LinesUpTo(n - 1) IN
         shorter \cup {Append(ls, l) : ls \in {x \in shorter : Len(x) = n - 1},
                                       l \in LinePool}

\* completions that need not follow the layout
FreeCompletions == {Join(ls) : ls \in LinesUpTo(MaxLines)}

LayoutLangs == {<<"F","r","e","n","c","h">>, <<"T","h","a","i">>}

BulletPool == {<<"P","o","i","n","t"," ","o","n","e">>,
               <<"P","o","i","n","t"," ","t","w","o">>}

TitlePool == {<<"L","e"," ","T","i","t","r","e">>, <<"T","i","t","r","e">>}

ContentPool == {<<"L","e"," ","C","o","r","p","s">>}

RECURSIVE BulletsUpTo(_)
BulletsUpTo(n) ==
    IF n = 0 THEN {<<>>}
    ELSE LET shorter == BulletsUpTo(n - 1) IN
         shorter \cup {Append(bs, b) : bs \in {x \in shorter : Len(x) = n - 1},
                                       b \in BulletPool}

\* the layout the prompt asks for (app.py 86-93)
Layout(lang, bs, t, c) ==
    Join(<<SummaryIn \o <<" ">> \o lang \o <<":">>>>
         \o [i \in 1..Len(bs) |-> <<"-", " ">> \o bs[i]]
         \o <<TitleMarker \o <<" ">> \o t, ContentMarker \o <<" ">> \o c>>)

LayoutCompletions ==
    {Layout(lang, bs, t, c) : lang \in LayoutLangs, bs \in BulletsUpTo(MaxBullets),
                              t \in TitlePool, c \in ContentPool}

ParseInputs == FreeCompletions \cup LayoutCompletions

ParseInit ==
    /\ SessionInit
    /\ pc = "parse"
    /\ text \in ParseInputs
    /\ out = <<>>

ParseCall ==
    /\ pc = "parse"
    /\ out' = <<ParseTranslatedResponse(text)>>
    /\ pc' = "parsed"
    /\ UNCHANGED <<text, sessionVars>>

ParseNext == ParseCall

ParseSpec == ParseInit /\ [][ParseNext]_vars

----------------------------------------------------------------------------
\* The two external services, as the replies the script can receive.

\* a call that raises
Raise == <<"<raise>">>

Eng == <<"e","n","g">>

\* article records of a response: with emphasis markup, without title, body
\* and url keys, and in another language
RawRecords == {
    [title |-> <<"*","A","*">>, body |-> <<"b"," ">>, url |-> <<"u">>, lang |-> Eng],
    [lang |-> Eng],
    [title |-> <<"E">>, body |-> <<"e">>, url |-> <<"w">>, lang |-> <<"f","r","a">>] }

\* responses list each article once
RECURSIVE ResultsUpTo(_)
ResultsUpTo(n) ==
    IF n = 0 THEN {<<>>}
    ELSE LET shorter == ResultsUpTo(n - 1) IN
         shorter \cup {Append(rs, r) : rs \in {x \in shorter : Len(x) = n - 1},
                                       r \in RawRecords}

DistinctResults(n) ==
    {rs \in ResultsUpTo(n) : \A i, j \in 1..Len(rs) : rs[i] = rs[j] => i = j}

\* what requests.get and response.json() can produce:
\*   network      requests.get raises
\*   http         status_code != 200
\*   undecodable  response.json() raises ValueError
\*   scalar       the body is a JSON number or null
\*   no_articles  a JSON object without the key 'articles'
\*   no_results   'articles' is an object without the key 'results'
\*   ok           response_json['articles']['results'] is a list of records
Responses ==
    {[kind |-> k, results |-> <<>>] :
        k \in {"network", "http", "undecodable", "scalar", "no_articles", "no_results"}}
    \cup {[kind |-> "ok", results |-> rs] : rs \in DistinctResults(MaxResults)}

\* the Search Query text input
Queries == {<<>>, <<"a","i">>}

\* completions of the translation call
CompletionReplies == {
    Layout(<<"T","h","a","i">>, << <<"p">> >>, <<"_","T","_">>, <<"C">>),
    <<"-"," ","q">> }

Positive == <<"P","o","s","i","t","i","v","e">>

Negative == <<"N","e","g","a","t","i","v","e">>

Neutral == <<"N","e","u","t","r","a","l">>

\* completions of the sentiment call
SentimentReplies == {
    <<" ">> \o Negative \o <<"\n">>,
    <<"I","t","'","s"," ","c","o","m","p","l","i","c","a","t","e","d">> }

----------------------------------------------------------------------------
\* Functions of the script.

\* translate_and_summarize: the completion, None when the call raises
translate_and_summarize(reply) == IF reply = Raise THEN None ELSE reply

\* analyze_sentiment returning the completion as it came
analyze_sentiment_raw(reply) == IF reply = Raise THEN None ELSE reply

\* analyze_sentiment: the completion stripped, None when the call raises
analyze_sentiment(reply) == IF reply = Raise THEN None ELSE StrStrip(reply)

\* {"Positive": "green", "Negative": "red", "Neutral": "gray"}.get(sentiment, "gray")
sentiment_color(sentiment) ==
    IF sentiment = Positive THEN "green"
    ELSE IF sentiment = Negative THEN "red"
    ELSE "gray"

\* lines 224-226: title and body of every record replaced by their stripped text
StripRecord(article) ==
    LET a1 == SetKey(article, "title", strip_markdown(Get(article, "title", <<>>)))
    IN  SetKey(a1, "body", strip_markdown(Get(a1, "body", <<>>)))

IsEng(article) == Get(article, "lang", None) = Eng

\* lines 222-228: the list stored by a well-formed response
StoredArticles(results) ==
    LET stripped == [i \in 1..Len(results) |-> StripRecord(results[i])]
    IN  SelectSeq(stripped, IsEng)

\* the script stops on an uncaught exception: requests.get raising, or
\* `'articles' in response_json` on a value that is no container
FetchCrashes(query, resp) == query # <<>> /\ resp.kind \in {"network", "scalar"}

\* the handler resetting the list on a non-200 status as well
FetchArticlesHttpReset(arts, query, resp) ==
    IF query = <<>> THEN arts
    ELSE IF resp.kind = "ok" THEN StoredArticles(resp.results)
    ELSE IF resp.kind \in {"no_articles", "no_results", "http"} THEN <<>>
    ELSE arts

\* the handler leaving the list alone when the shape is wrong
FetchArticlesNoReset(arts, query, resp) ==
    IF query = <<>> THEN arts
    ELSE IF resp.kind = "ok" THEN StoredArticles(resp.results)
    ELSE arts

\* lines 185-236: st.session_state.articles after the handler
FetchArticles(arts, query, resp) ==
    IF query = <<>> THEN arts
    ELSE IF resp.kind = "ok" THEN StoredArticles(resp.results)
    ELSE IF resp.kind \in {"no_articles", "no_results"} THEN <<>>
    ELSE arts

\* line 229: the flag is set on the well-formed branch only
FetchFlag(flag, query, resp) ==
    IF query # <<>> /\ resp.kind = "ok" THEN TRUE ELSE flag

\* the Translate handler keeping the old entry when the call returned None
TranslateEntryKeep(entries, n, pressed, reply) ==
    [i \in DOMAIN entries \cup 1..n |->
        IF i = pressed /\ translate_and_summarize(reply) # None
        THEN translate_and_summarize(reply)
        ELSE IF i \in DOMAIN entries THEN entries[i]
        ELSE None]

\* lines 263-272 over the whole loop: every displayed index gets an entry
\* (None when it had none), the pressed one the outcome of the call.
\* Index i stands for the key translated_<i-1>; pressed = 0 is no button.
TranslateEntry(entries, n, pressed, reply) ==
    [i \in DOMAIN entries \cup 1..n |->
        IF i = pressed THEN translate_and_summarize(reply)
        ELSE IF i \in DOMAIN entries THEN entries[i]
        ELSE None]

NoTitle == <<"N","o"," ","T","i","t","l","e">>

NoDescription == <<"N","o"," ","D","e","s","c","r","i","p","t","i","o","n">>

\* lines 246-303 for one article: title, body and url with their defaults
\* and, when the entry is truthy, the fields parsed from it
Parsed(article, entry) ==
    LET title == Get(article, "title", NoTitle)
        body  == Get(article, "body", NoDescription)
        url   == Get(article, "url", <<"#">>)
    IN  IF Truthy(entry)
        THEN LET parsed == ParseTranslatedResponse(entry) IN
             [title |-> title, body |-> body, url |-> url, expanded |-> TRUE,
              bullets |-> [k \in 1..Len(parsed.summary) |->
                              <<"-", " ">> \o StrStrip(parsed.summary[k])],
              translated_title |-> parsed.translated_title,
              translated_body |-> parsed.translated_body]
        ELSE [title |-> title, body |-> body, url |-> url, expanded |-> FALSE,
              bullets |-> <<>>, translated_title |-> <<>>, translated_body |-> <<>>]

\* lines 314-325: the sentiment call of an expander that shows a translation
Row(parsed, sentimentReply) ==
    LET sentiment == IF parsed.expanded THEN analyze_sentiment(sentimentReply) ELSE None
    IN  [title |-> parsed.title, body |-> parsed.body, url |-> parsed.url,
         expanded |-> parsed.expanded, bullets |-> parsed.bullets,
         translated_title |-> parsed.translated_title,
         translated_body |-> parsed.translated_body,
         reply |-> sentimentReply,
         sentiment |-> sentiment,
         color |-> IF parsed.expanded THEN sentiment_color(sentiment) ELSE "none"]

\* the indices whose expander shows a translation, hence a sentiment call
Expanded(arts, entries) ==
    {i \in 1..Len(arts) : i \in DOMAIN entries /\ Truthy(entries[i])}

\* lines 239-336 up to the sentiment calls; nothing but a message unless
\* articles were fetched
Page(arts, flag, entries) ==
    IF flag THEN [i \in 1..Len(arts) |-> Parsed(arts[i], entries[i])] ELSE <<>>

\* the page with the sentiment of each shown translation
Display(page, sents) ==
    [i \in 1..Len(page) |-> Row(page[i], IF i \in DOMAIN sents THEN sents[i] ELSE None)]

----------------------------------------------------------------------------
\* Runs of the script.

Init ==
    /\ SessionInit
    /\ pc = "session"
    /\ text = <<>>
    /\ out = <<>>

\* the sentiment replies of one run: one per expander that shows a translation
SentimentRuns(arts, flag, entries) ==
    [(IF flag THEN Expanded(arts, entries) ELSE {}) -> SentimentReplies \cup {Raise}]

\* the Fetch Articles button: the handler, then the display loop
Fetch(query, resp) ==
    LET arts    == FetchArticles(articles, query, resp)
        crashed == FetchCrashes(query, resp)
        flag    == FetchFlag(articles_fetched, query, resp)
        entries == IF flag /\ ~crashed
                   THEN TranslateEntry(translated, Len(arts), 0, Raise)
                   ELSE translated
        page    == IF crashed THEN <<>> ELSE Page(arts, flag, entries)
    IN  /\ pc = "session"
        /\ articles' = arts
        /\ articles_fetched' = flag
        /\ translated' = entries
        /\ \E sents \in SentimentRuns(arts, flag /\ ~crashed, entries) :
              shown' = Display(page, sents)
        /\ lastRun' = [op |-> "fetch", query |-> query, kind |-> resp.kind,
                       results |-> resp.results]
        /\ UNCHANGED harnessVars

\* a Translate and Summarize button of the page rendered last
Translate(index, reply) ==
    LET entries == TranslateEntry(translated, Len(articles), index, reply)
        page    == Page(articles, articles_fetched, entries)
    IN  /\ pc = "session"
        /\ articles_fetched
        /\ index \in 1..Len(shown)
        /\ translated' = entries
        /\ \E sents \in SentimentRuns(articles, articles_fetched, entries) :
              shown' = Display(page, sents)
        /\ lastRun' = [op |-> "translate", index |-> index, reply |-> reply,
                       prev |-> translated[index]]
        /\ UNCHANGED <<articles, articles_fetched, harnessVars>>

\* any other widget event: the script runs with no button pressed
Rerun ==
    LET entries == IF articles_fetched
                   THEN TranslateEntry(translated, Len(articles), 0, Raise)
                   ELSE translated
        page    == Page(articles, articles_fetched, entries)
    IN  /\ pc = "session"
        /\ translated' = entries
        /\ \E sents \in SentimentRuns(articles, articles_fetched, entries) :
              shown' = Display(page, sents)
        /\ lastRun' = [op |-> "rerun"]
        /\ UNCHANGED <<articles, articles_fetched, harnessVars>>

\* with an empty query no request is sent
ResponsesFor(query) ==
    IF query = <<>> THEN {[kind |-> "none", results |-> <<>>]} ELSE Responses

Next ==
    \/ \E query \in Queries : \E resp \in ResponsesFor(query) : Fetch(query, resp)
    \/ \E index \in 1..MaxResults, reply \in CompletionReplies \cup {Raise} :
          Translate(index, reply)
    \/ Rerun

Spec == Init /\ [][Next]_vars

----------------------------------------------------------------------------
\* Properties of the session (Spec).

\* C1: right after a fetch that replaced the article list no index of the new
\* list holds a stored translation, so no article is shown with the
\* translation of the article that had its index before.
C1_FetchClearsTranslations ==
    (lastRun.op = "fetch" /\ lastRun.kind = "ok") =>
        \A i \in 1..Len(articles) :
            /\ i \in DOMAIN translated => ~Truthy(translated[i])
            /\ ~shown[i].expanded

\* C2 as claimed: after a fetch answered with status 200 and a body that is
\* no JSON or lacks the articles/results shape, the article list is empty.
C2_BadBodyEmptiesList ==
    (lastRun.op = "fetch" /\ lastRun.kind \in {"undecodable", "no_articles", "no_results"})
        => articles = <<>>

\* C2 amended: a JSON object without 'articles', or whose 'articles' object has
\* no 'results', empties the article list; a body that is no JSON leaves the
\* list as it was.
C2_ShapeEmptiesDecodeKeeps ==
    [][lastRun'.op = "fetch" =>
          /\ lastRun'.kind \in {"no_articles", "no_results"} => articles' = <<>>
          /\ lastRun'.kind = "undecodable" => articles' = articles]_vars

C2_Witness ==
    /\ lastRun.op = "fetch"
    /\ lastRun.kind = "undecodable"
    /\ articles # <<>>

\* C3: a fetch that fails before the JSON is decoded (the request raises, or
\* the status is not 200) leaves the article list, the articles_fetched flag
\* and every translation entry as they were.
C3_EarlyFailureKeepsState ==
    [][(lastRun'.op = "fetch" /\ lastRun'.kind \in {"network", "http"})
          => UNCHANGED <<articles, articles_fetched, translated>>]_vars

C3_Witness ==
    /\ lastRun.op = "fetch"
    /\ lastRun.kind = "http"
    /\ articles_fetched
    /\ articles # <<>>
    /\ \E i \in DOMAIN translated : Truthy(translated[i])

\* C7: an article record of a successful fetch that has no 'title' key is
\* stored and shown with the title "No Title", and one without 'body' with
\* the body "No Description".
C7_MissingKeysGetDefaults ==
    (lastRun.op = "fetch" /\ lastRun.kind = "ok") =>
        LET eng == SelectSeq(lastRun.results, IsEng) IN
        \A i \in 1..Len(eng) :
            /\ "title" \notin DOMAIN eng[i] =>
                  /\ Get(articles[i], "title", NoTitle) = NoTitle
                  /\ shown[i].title = NoTitle
            /\ "body" \notin DOMAIN eng[i] =>
                  /\ Get(articles[i], "body", NoDescription) = NoDescription
                  /\ shown[i].body = NoDescription

Unknown == <<"U","n","k","n","o","w","n">>

C10_TranslateOverwritesOneEntry ==
    [][lastRun'.op = "translate" =>
          /\ translated'[lastRun'.index] =
                (IF lastRun'.reply = Raise THEN None ELSE lastRun'.reply)
          /\ DOMAIN translated' = DOMAIN translated
          /\ \A j \in DOMAIN translated \ {lastRun'.index} : translated'[j] = translated[j]
          /\ articles' = articles]_vars

C10_Witness ==
    /\ lastRun.op = "translate"
    /\ lastRun.reply = Raise
    /\ Truthy(lastRun.prev)
    /\ translated[lastRun.index] = None
    /\ \E j \in DOMAIN translated : j # lastRun.index /\ Truthy(translated[j])

----------------------------------------------------------------------------
\* Properties of the parsing loop (ParseSpec).

\* C4: a completion that follows the requested layout exactly is parsed into
\* its bullets without the leading "- ", its title and its content.
C4_LayoutRecovered ==
    pc = "parsed" =>
        \A lang \in LayoutLangs, bs \in BulletsUpTo(MaxBullets),
           t \in TitlePool, c \in ContentPool :
            text = Layout(lang, bs, t, c) =>
                /\ out[1].summary = bs
                /\ out[1].translated_title = t
                /\ out[1].translated_body = c

\* a line of the text starts with the marker
MarkerStartsLine(marker) ==
    \E p \in 1..Len(text) :
        /\ p = 1 \/ text[p - 1] = "\n"
        /\ p + Len(marker) - 1 <= Len(text)
        /\ \A k \in 1..Len(marker) : text[p + k - 1] = marker[k]

\* C5: parsing any completion finishes without raising, and every field whose
\* marker starts no line keeps its default: no bullets, empty title, empty body.
C5_ParseTotalWithDefaults ==
    pc = "parsed" =>
        /\ ~out[1].raised
        /\ ~MarkerStartsLine(SummaryIn) => out[1].summary = <<>>
        /\ ~MarkerStartsLine(TitleMarker) => out[1].translated_title = <<>>
        /\ ~MarkerStartsLine(ContentMarker) => out[1].translated_body = <<>>

C5_Witness ==
    /\ pc = "parsed"
    /\ ~MarkerStartsLine(SummaryIn)
    /\ ~MarkerStartsLine(TitleMarker)
    /\ MarkerStartsLine(ContentMarker)
    /\ out[1].translated_body # <<>>
    /\ out[1].translated_title = <<>>
    /\ out[1].summary = <<>>

\* the lines of the text and the positions of its "Summary in" lines
TextLines == Split(text)

SummaryLines == {i \in 1..Len(TextLines) : StartsWith(TextLines[i], SummaryIn)}

\* C6 as claimed: the bullets are the unbroken run of '-' lines right after the
\* "Summary in" line; a '-' line after the first other line is not a bullet.
C6_BulletsAreContiguousRun ==
    (pc = "parsed" /\ Cardinality(SummaryLines) = 1) =>
        out[1].summary = SummaryRun(TextLines, Min(SummaryLines))

\* C6 amended: the bullets are all the '-' lines after the "Summary in" line,
\* in order, wherever they stand: also after a blank line or after the
\* Translated Title / Translated Content lines.  With several "Summary in"
\* lines the last one counts, from the first line that has its text.
C6_BulletsAreAllDashLines ==
    (pc = "parsed" /\ SummaryLines # {}) =>
        LET last  == TextLines[Max(SummaryLines)]
            s     == Min({i \in 1..Len(TextLines) : TextLines[i] = last})
            after == {i \in (s + 1)..Len(TextLines) :
                         TextLines[i] # <<>> /\ TextLines[i][1] = "-"}
        IN  /\ Len(out[1].summary) = Cardinality(after)
            /\ \A i \in after :
                  out[1].summary[Cardinality({j \in after : j <= i})] = StrStrip(TextLines[i])

C6_Witness ==
    /\ pc = "parsed"
    /\ Cardinality(SummaryLines) = 1
    /\ \E i, j \in 1..Len(TextLines) :
          /\ Min(SummaryLines) < i
          /\ i < j
          /\ StartsWith(TextLines[i], ContentMarker)
          /\ IsDashLine(TextLines[j])
          /\ out[1].summary = <<TextLines[j]>>

----------------------------------------------------------------------------
\* Properties of strip_markdown (StripSpec).

HasEmphasisChar(s) == \E k \in 1..Len(s) : s[k] \in {"*", "_"}

\* C9 as claimed: strip_markdown applied twice gives what it gives applied once.
C9_StripIdempotent == pc = "stripped" => out[2] = out[1]

\* C9 amended: strip_markdown is idempotent on every text that one pass leaves
\* without '*' and '_', so on every text free of emphasis markers; nested
\* markers such as three asterisks around a word take a second pass.
C9_StripIdempotentOnceResolved ==
    (pc = "stripped" /\ ~HasEmphasisChar(out[1])) => out[2] = out[1]

C9_Witness ==
    /\ pc = "stripped"
    /\ ~HasEmphasisChar(text)
    /\ out[1] # text
    /\ out[1] # <<>>
    /\ out[2] = out[1]

====
